---------------------------- MODULE Spec2Model ----------------------------
(***************************************************************************)
(* Model of the Aquarea integration's polling coordinator                  *)
(* (custom_components/aquarea/coordinator.py) and of its water heater      *)
(* entity (custom_components/aquarea/water_heater.py).                     *)
(*                                                                         *)
(* Python's None is the empty sequence <<>> and a present value x is the   *)
(* one-element sequence <<x>>.  Temperatures supplied by the user are      *)
(* floats with one decimal, held as integer tenths (21.6 is 216).          *)
(***************************************************************************)
EXTENDS Integers, Sequences, FiniteSets, TLC

VARIABLES
    device,         \* coordinator._device: <<>> or <<snapshot>>
    coordPc,        \* position of _async_update_data: "idle" or "awaiting"
    fetchCalls,     \* number of client.get_device calls issued so far
    lastFetch,      \* how the latest completed client.get_device call ended
    updateOutcome,  \* how the latest _async_update_data invocation ended
    lastSuccess,    \* value returned by the latest get_device call that returned
    entity,         \* the WaterHeater entity's attributes
    hostState,      \* attributes last written to the host: <<>> or <<attributes>>
    calls,          \* tank control calls made by the latest command
    cmdError,       \* exception the latest command raised to its caller, or <<>>
    lastOp,         \* name of the latest operation that ran
    lastArg         \* argument of the latest command: <<>> or <<value>>

vars == <<device, coordPc, fetchCalls, lastFetch, updateOutcome, lastSuccess,
          entity, hostState, calls, cmdError, lastOp, lastArg>>

None == <<>>
Some(x) == <<x>>

-----------------------------------------------------------------------------
(* Bounds *)

\* number of polls the host scheduler issues
MaxPolls == 2

-----------------------------------------------------------------------------
(* Constants of the host framework and of the integration.  They are      *)
(* imported by water_heater.py; the code only compares them for equality,  *)
(* so any four distinct labels behave alike.                               *)

STATE_OFF == "off"
STATE_HEAT_PUMP == "heat_pump"
HEATING == "Heating"
IDLE == "Idle"

ICON_OFF == "mdi:water-boiler-off"
ICON_ALERT == "mdi:water-boiler-alert"
ICON_ON == "mdi:water-boiler"

\* OperationStatus of the client library
OperationStatuses == {"OFF", "ON"}

\* AuthenticationErrorCodes of the client library; SESSION_CLOSED stands for
\* every code the coordinator does not list
AuthenticationErrorCodes ==
    {"INVALID_USERNAME_OR_PASSWORD", "INVALID_CREDENTIALS", "TOKEN_EXPIRED",
     "SESSION_CLOSED"}

-----------------------------------------------------------------------------
(* The values the external client can produce *)

Tanks ==
    [operation_status : OperationStatuses,
     heat_min : {40},
     heat_max : {65},
     target_temperature : {45, 50},
     temperature : {38}]

\* a device snapshot: optional tank, device-level error flag, has_tank flag
Snapshots ==
    [tank : {None} \cup {Some(t) : t \in Tanks},
     is_on_error : BOOLEAN,
     has_tank : BOOLEAN]

\* exceptions client.get_device can raise; error_code is "" for the types
\* that carry none
Exceptions ==
    {[type |-> "AuthenticationError", error_code |-> c] :
        c \in AuthenticationErrorCodes}
    \cup {[type |-> "RequestFailedError", error_code |-> ""],
          [type |-> "ApiError", error_code |-> ""],
          [type |-> "TimeoutError", error_code |-> ""]}

NoFetch == [kind |-> "none", value |-> None, exc |-> None]
Returned(s) == [kind |-> "return", value |-> Some(s), exc |-> None]
Raised(e) == [kind |-> "raise", value |-> None, exc |-> Some(e)]

FetchOutcomes ==
    {Returned(s) : s \in Snapshots} \cup {Raised(e) : e \in Exceptions}

\* temperature keyword argument of async_set_temperature, in tenths
SuppliedTemperatures == {None, Some(216), Some(450), Some(0), Some(-215)}

\* operation modes a caller can request
OperationModes == {HEATING, STATE_OFF, IDLE, "eco"}

\* outcomes of an awaited tank control call: it returns, or the client raises
ControlOutcomes == {None, Some("RequestFailedError")}

-----------------------------------------------------------------------------
(* coordinator.py *)

\* the value of self._device after the try statement
UpdateDataClearsOnFailure(dev, outcome) ==
    IF outcome.kind = "return" THEN outcome.value ELSE None

UpdateData(dev, outcome) ==
    IF outcome.kind = "return" THEN outcome.value ELSE dev

\* how _async_update_data ends: "returned", or the name of the exception raised
UpdateSignalNoTokenExpired(outcome) ==
    IF outcome.kind = "return" THEN "returned"
    ELSE LET e == outcome.exc[1] IN
         IF e.type = "AuthenticationError"
         THEN IF e.error_code \in {"INVALID_USERNAME_OR_PASSWORD",
                                   "INVALID_CREDENTIALS"}
              THEN "ConfigEntryAuthFailed"
              ELSE "returned"
         ELSE IF e.type = "RequestFailedError"
         THEN "UpdateFailed"
         ELSE e.type

UpdateSignal(outcome) ==
    IF outcome.kind = "return" THEN "returned"
    ELSE LET e == outcome.exc[1] IN
         IF e.type = "AuthenticationError"
         THEN IF e.error_code \in {"INVALID_USERNAME_OR_PASSWORD",
                                   "INVALID_CREDENTIALS",
                                   "TOKEN_EXPIRED"}
              THEN "ConfigEntryAuthFailed"
              ELSE "returned"
         ELSE IF e.type = "RequestFailedError"
         THEN "UpdateFailed"
         ELSE e.type

\* _async_update_data up to the await of client.get_device
PollStart ==
    /\ coordPc = "idle"
    /\ fetchCalls < MaxPolls
    /\ coordPc' = "awaiting"
    /\ fetchCalls' = fetchCalls + 1
    /\ lastOp' = "poll_start"
    /\ UNCHANGED <<device, lastFetch, updateOutcome, lastSuccess, entity,
                   hostState, calls, cmdError, lastArg>>

\* client.get_device completes and _async_update_data runs to its end
PollEnd ==
    /\ coordPc = "awaiting"
    /\ \E outcome \in FetchOutcomes :
         /\ device' = UpdateData(device, outcome)
         /\ updateOutcome' = UpdateSignal(outcome)
         /\ lastFetch' = outcome
         /\ lastSuccess' = IF outcome.kind = "return" THEN outcome.value
                           ELSE lastSuccess
    /\ coordPc' = "idle"
    /\ lastOp' = "poll_end"
    /\ UNCHANGED <<fetchCalls, entity, hostState, calls, cmdError, lastArg>>

-----------------------------------------------------------------------------
(* water_heater.py *)

NoEntity ==
    [constructed |-> FALSE, available |-> FALSE,
     state |-> "", current_operation |-> "", icon |-> "",
     min_temp |-> None, max_temp |-> None,
     target_temperature |-> None, current_temperature |-> None]

\* self.coordinator.device.tank is not None
TankIsNotNone(dev) == dev[1].tank # None

UpdateAvailable(ent, dev) == [ent EXCEPT !.available = TankIsNotNone(dev)]

UpdateTemperatureKeepsStale(ent, dev) ==
    IF dev[1].tank = None
    THEN ent
    ELSE LET tank == dev[1].tank[1] IN
         [ent EXCEPT !.min_temp = Some(tank.heat_min),
                     !.max_temp = Some(tank.heat_max),
                     !.target_temperature = Some(tank.target_temperature),
                     !.current_temperature = Some(tank.temperature)]

UpdateTemperature(ent, dev) ==
    IF dev[1].tank = None
    THEN [ent EXCEPT !.min_temp = None,
                     !.max_temp = None,
                     !.target_temperature = None,
                     !.current_temperature = None]
    ELSE LET tank == dev[1].tank[1] IN
         [ent EXCEPT !.min_temp = Some(tank.heat_min),
                     !.max_temp = Some(tank.heat_max),
                     !.target_temperature = Some(tank.target_temperature),
                     !.current_temperature = Some(tank.temperature)]

UpdateOperationStateNoAlert(ent, dev) ==
    IF dev[1].tank = None
    THEN [ent EXCEPT !.state = STATE_OFF,
                     !.current_operation = STATE_OFF,
                     !.icon = ICON_OFF]
    ELSE IF dev[1].tank[1].operation_status = "OFF"
    THEN [ent EXCEPT !.state = STATE_OFF,
                     !.current_operation = STATE_OFF,
                     !.icon = ICON_OFF]
    ELSE [ent EXCEPT !.icon = ICON_ON,
                     !.state = STATE_HEAT_PUMP,
                     !.current_operation = HEATING]

UpdateOperationState(ent, dev) ==
    IF dev[1].tank = None
    THEN [ent EXCEPT !.state = STATE_OFF,
                     !.current_operation = STATE_OFF,
                     !.icon = ICON_OFF]
    ELSE IF dev[1].tank[1].operation_status = "OFF"
    THEN [ent EXCEPT !.state = STATE_OFF,
                     !.current_operation = STATE_OFF,
                     !.icon = IF dev[1].is_on_error THEN ICON_ALERT
                              ELSE ICON_OFF]
    ELSE [ent EXCEPT !.icon = ICON_ON,
                     !.state = STATE_HEAT_PUMP,
                     !.current_operation = HEATING]

\* the three recomputations of __init__ and of _handle_coordinator_update
Recompute(ent, dev) ==
    UpdateOperationState(UpdateTemperature(UpdateAvailable(ent, dev), dev), dev)

\* async_setup_entry creates the entity for a coordinator whose device
\* reports has_tank; WaterHeater.__init__ computes the attributes
SetupEntry ==
    /\ ~entity.constructed
    /\ device # None
    /\ device[1].has_tank
    /\ entity' = Recompute([NoEntity EXCEPT !.constructed = TRUE], device)
    /\ lastOp' = "setup"
    /\ UNCHANGED <<device, coordPc, fetchCalls, lastFetch, updateOutcome,
                   lastSuccess, hostState, calls, cmdError, lastArg>>

\* what super()._handle_coordinator_update() writes to the host, given the
\* attributes before and after the recomputation
WriteHaStateBeforeRecompute(before, after) == Some(before)

WriteHaState(before, after) == Some(after)

HandleCoordinatorUpdate ==
    /\ entity.constructed
    /\ entity' = Recompute(entity, device)
    /\ hostState' = WriteHaState(entity, entity')
    /\ lastOp' = "handle_update"
    /\ UNCHANGED <<device, coordPc, fetchCalls, lastFetch, updateOutcome,
                   lastSuccess, calls, cmdError, lastArg>>

\* int(temperature) of a float held in tenths: truncation toward zero
IntRounds(t) == (t + 5) \div 10

IntOf(t) == IF t >= 0 THEN t \div 10 ELSE -((-t) \div 10)

Call(method, args) == [method |-> method, args |-> args]

\* the tank control calls of a command and the exception it raises to its
\* caller; ctl is the outcome of the awaited control call, if one is made
SetTemperatureEffect(dev, temperature, ctl) ==
    IF temperature = None
    THEN [calls |-> <<>>, error |-> None]
    ELSE IF dev[1].tank = None
    THEN [calls |-> <<>>, error |-> Some("AttributeError")]
    ELSE [calls |-> <<Call("set_target_temperature", <<IntOf(temperature[1])>>)>>,
          error |-> ctl]

SetOperationModeSwapped(dev, operation_mode, ctl) ==
    IF dev[1].tank = None
    THEN [calls |-> <<>>, error |-> None]
    ELSE IF operation_mode = HEATING
    THEN [calls |-> <<Call("turn_off", <<>>)>>, error |-> ctl]
    ELSE IF operation_mode = STATE_OFF
    THEN [calls |-> <<Call("turn_on", <<>>)>>, error |-> ctl]
    ELSE [calls |-> <<>>, error |-> None]

SetOperationModeEffect(dev, operation_mode, ctl) ==
    IF dev[1].tank = None
    THEN [calls |-> <<>>, error |-> None]
    ELSE IF operation_mode = HEATING
    THEN [calls |-> <<Call("turn_on", <<>>)>>, error |-> ctl]
    ELSE IF operation_mode = STATE_OFF
    THEN [calls |-> <<Call("turn_off", <<>>)>>, error |-> ctl]
    ELSE [calls |-> <<>>, error |-> None]

\* a variant of async_set_temperature that also writes the requested value
\* into the entity's target temperature
AsyncSetTemperatureOptimistic ==
    /\ entity.constructed
    /\ \E temperature \in SuppliedTemperatures, ctl \in ControlOutcomes :
         LET eff == SetTemperatureEffect(device, temperature, ctl) IN
         /\ calls' = eff.calls
         /\ cmdError' = eff.error
         /\ lastArg' = temperature
         /\ entity' = IF eff.calls # <<>>
                      THEN [entity EXCEPT !.target_temperature =
                                              Some(eff.calls[1].args[1])]
                      ELSE entity
    /\ lastOp' = "set_temperature"
    /\ UNCHANGED <<device, coordPc, fetchCalls, lastFetch, updateOutcome,
                   lastSuccess, hostState>>

AsyncSetTemperature ==
    /\ entity.constructed
    /\ \E temperature \in SuppliedTemperatures, ctl \in ControlOutcomes :
         LET eff == SetTemperatureEffect(device, temperature, ctl) IN
         /\ calls' = eff.calls
         /\ cmdError' = eff.error
         /\ lastArg' = temperature
    /\ lastOp' = "set_temperature"
    /\ UNCHANGED <<device, coordPc, fetchCalls, lastFetch, updateOutcome,
                   lastSuccess, entity, hostState>>

AsyncSetOperationMode ==
    /\ entity.constructed
    /\ \E operation_mode \in OperationModes, ctl \in ControlOutcomes :
         LET eff == SetOperationModeEffect(device, operation_mode, ctl) IN
         /\ calls' = eff.calls
         /\ cmdError' = eff.error
         /\ lastArg' = Some(operation_mode)
    /\ lastOp' = "set_operation_mode"
    /\ UNCHANGED <<device, coordPc, fetchCalls, lastFetch, updateOutcome,
                   lastSuccess, entity, hostState>>

-----------------------------------------------------------------------------
(* Specification *)

Init ==
    /\ device = None
    /\ coordPc = "idle"
    /\ fetchCalls = 0
    /\ lastFetch = NoFetch
    /\ updateOutcome = "none"
    /\ lastSuccess = None
    /\ entity = NoEntity
    /\ hostState = None
    /\ calls = <<>>
    /\ cmdError = None
    /\ lastOp = "init"
    /\ lastArg = None

Next ==
    \/ PollStart
    \/ PollEnd
    \/ SetupEntry
    \/ HandleCoordinatorUpdate
    \/ AsyncSetTemperature
    \/ AsyncSetOperationMode

Spec == Init /\ [][Next]_vars

-----------------------------------------------------------------------------
(* Properties of the coordinator *)

FatalAuthCodes ==
    {"INVALID_USERNAME_OR_PASSWORD", "INVALID_CREDENTIALS", "TOKEN_EXPIRED"}

FetchRaised(type) ==
    lastFetch.kind = "raise" /\ lastFetch.exc[1].type = type

FetchRaisedFatalAuth ==
    /\ FetchRaised("AuthenticationError")
    /\ lastFetch.exc[1].error_code \in FatalAuthCodes

\* C1: a fetch failing with an authentication error whose code is
\* INVALID_USERNAME_OR_PASSWORD, INVALID_CREDENTIALS or TOKEN_EXPIRED ends the
\* update routine with ConfigEntryAuthFailed, a fetch failing with
\* RequestFailedError ends it with UpdateFailed, and neither signal is
\* produced for any other cause.
C1_AuthAndRequestFailureSignals ==
    /\ FetchRaisedFatalAuth => updateOutcome = "ConfigEntryAuthFailed"
    /\ FetchRaised("RequestFailedError") => updateOutcome = "UpdateFailed"
    /\ updateOutcome = "ConfigEntryAuthFailed" => FetchRaisedFatalAuth
    /\ updateOutcome = "UpdateFailed" => FetchRaised("RequestFailedError")

C1_Witness ==
    /\ lastOp = "poll_end"
    /\ FetchRaised("AuthenticationError")
    /\ lastFetch.exc[1].error_code = "TOKEN_EXPIRED"
    /\ updateOutcome = "ConfigEntryAuthFailed"
    /\ device # None

\* C2: after every failing fetch the update routine ends with an error
\* signal; it never completes normally after a failed fetch.
C2_FailedFetchNeverReturnsNormally ==
    lastFetch.kind = "raise" => updateOutcome # "returned"

\* C8: the cached snapshot is the value returned by the most recent
\* successful fetch, or None if no fetch has succeeded; failed polls, entity
\* commands and the entity's refresh handler leave it as it was.
C8_CacheIsLastSuccessfulFetch ==
    device = lastSuccess

C8_Witness ==
    /\ lastOp \in {"set_temperature", "set_operation_mode", "handle_update"}
    /\ lastFetch.kind = "raise"
    /\ fetchCalls = 2
    /\ device # None
    /\ device = lastSuccess

-----------------------------------------------------------------------------
(* Properties of the water heater entity *)

TankAbsent == device # None /\ device[1].tank = None
TankPresent == device # None /\ device[1].tank # None

CommandRan == lastOp \in {"set_temperature", "set_operation_mode"}

TurnOn == [method |-> "turn_on", args |-> <<>>]
TurnOff == [method |-> "turn_off", args |-> <<>>]

Invoked(method) ==
    Cardinality({i \in 1..Len(calls) : calls[i].method = method})

\* C3: a command issued while the snapshot has no tank invokes no tank
\* control method and raises no error, for set temperature with any supplied
\* value and for set operation mode with any mode.
C3_NoTankCommandsAreSilentNoOps ==
    (/\ CommandRan
     /\ TankAbsent
     /\ (lastOp = "set_temperature" => lastArg # None))
        => calls = <<>> /\ cmdError = None

\* C4 as stated: mode "off" always invokes turn-off exactly once and never
\* turn-on, the heating mode always invokes turn-on exactly once and never
\* turn-off, any other mode invokes neither and raises no error.
C4_ModeAlwaysInvokesControl ==
    lastOp = "set_operation_mode" =>
        /\ lastArg = Some(STATE_OFF) =>
               Invoked("turn_off") = 1 /\ Invoked("turn_on") = 0
        /\ lastArg = Some(HEATING) =>
               Invoked("turn_on") = 1 /\ Invoked("turn_off") = 0
        /\ lastArg \notin {Some(STATE_OFF), Some(HEATING)} =>
               calls = <<>> /\ cmdError = None

\* C4 amended: with a tank present, mode "off" invokes turn-off exactly once
\* and never turn-on, the heating mode invokes turn-on exactly once and never
\* turn-off, any other mode invokes neither and raises no error; with no tank
\* every mode invokes neither and raises no error.
C4_ModeInvokesControlWhenTankPresent ==
    lastOp = "set_operation_mode" =>
        /\ (TankPresent /\ lastArg = Some(STATE_OFF)) => calls = <<TurnOff>>
        /\ (TankPresent /\ lastArg = Some(HEATING)) => calls = <<TurnOn>>
        /\ (TankPresent /\ lastArg \notin {Some(STATE_OFF), Some(HEATING)}) =>
               calls = <<>> /\ cmdError = None
        /\ TankAbsent => calls = <<>> /\ cmdError = None

C4_Witness ==
    /\ lastOp = "set_operation_mode"
    /\ TankPresent
    /\ lastArg = Some(STATE_OFF)
    /\ calls = <<TurnOff>>

\* the temperature fields of attributes a mirror the tank of snapshot s
TemperaturesMirror(a, s) ==
    IF s.tank = None
    THEN /\ a.min_temp = None
         /\ a.max_temp = None
         /\ a.target_temperature = None
         /\ a.current_temperature = None
    ELSE /\ a.min_temp = <<s.tank[1].heat_min>>
         /\ a.max_temp = <<s.tank[1].heat_max>>
         /\ a.target_temperature = <<s.tank[1].target_temperature>>
         /\ a.current_temperature = <<s.tank[1].temperature>>

\* the operation state of attributes a is the one snapshot s determines
OperationStateMatches(a, s) ==
    IF s.tank = None
    THEN a.state = "off" /\ a.current_operation = "off"
         /\ a.icon = "mdi:water-boiler-off"
    ELSE IF s.tank[1].operation_status = "OFF"
    THEN a.state = "off" /\ a.current_operation = "off"
         /\ (s.is_on_error => a.icon = "mdi:water-boiler-alert")
         /\ (~s.is_on_error => a.icon = "mdi:water-boiler-off")
    ELSE a.state = "heat_pump" /\ a.current_operation = HEATING
         /\ a.icon = "mdi:water-boiler"

Refreshed == lastOp \in {"setup", "handle_update"}

\* C5: after construction and after every handled update notification the
\* entity is available iff the snapshot's tank is not None, its four
\* temperature fields are None when the tank is absent and equal the tank's
\* heat_min, heat_max, target_temperature and temperature when it is present.
C5_AvailabilityAndTemperatures ==
    Refreshed =>
        /\ entity.available <=> (device[1].tank # None)
        /\ TemperaturesMirror(entity, device[1])

C5_Witness ==
    /\ lastOp = "handle_update"
    /\ TankAbsent
    /\ ~entity.available
    /\ entity.target_temperature = None
    /\ fetchCalls = 2

\* C6: the operation state is a total function of the snapshot: no tank gives
\* off/off with the off icon; status OFF gives off/off with the alert icon
\* iff the device error flag is set; any other status gives the heat-pump
\* state, the heating operation and the generic icon whatever the error flag.
C6_OperationStateOfSnapshot ==
    Refreshed => OperationStateMatches(entity, device[1])

C6_Witness ==
    /\ lastOp = "handle_update"
    /\ TankPresent
    /\ device[1].tank[1].operation_status = "OFF"
    /\ device[1].is_on_error
    /\ entity.icon = ICON_ALERT

\* n is the float t (in tenths) truncated toward zero
IsTruncation(n, t) ==
    IF t >= 0 THEN 10 * n <= t /\ t < 10 * n + 10
    ELSE 10 * n >= t /\ t > 10 * n - 10

\* C7: set temperature makes no control call when no value is supplied; with
\* a value and a tank it invokes set_target_temperature exactly once with the
\* value truncated to an integer (21.6 gives 21); it never invokes turn-on or
\* turn-off.
C7_SetTemperatureTruncates ==
    lastOp = "set_temperature" =>
        /\ lastArg = None => calls = <<>>
        /\ (lastArg # None /\ TankPresent) =>
               /\ Len(calls) = 1
               /\ calls[1].method = "set_target_temperature"
               /\ Len(calls[1].args) = 1
               /\ IsTruncation(calls[1].args[1], lastArg[1])
               /\ lastArg = <<216>> => calls[1].args = <<21>>
        /\ Invoked("turn_on") = 0
        /\ Invoked("turn_off") = 0

C7_Witness ==
    /\ lastOp = "set_temperature"
    /\ lastArg = <<216>>
    /\ calls = <<[method |-> "set_target_temperature", args |-> <<21>>]>>

\* C9: the entity never calls the client's fetch, a command leaves every
\* exposed attribute and the state last written to the host as they were, and
\* the attributes of a constructed entity change only in the update handler.
C9_CommandsLeaveAttributes ==
    [][/\ fetchCalls' # fetchCalls => lastOp' = "poll_start" /\ entity' = entity
       /\ lastOp' \in {"set_temperature", "set_operation_mode"} =>
              /\ entity' = entity
              /\ hostState' = hostState
              /\ fetchCalls' = fetchCalls
              /\ coordPc' = coordPc
       /\ (entity.constructed /\ entity' # entity) => lastOp' = "handle_update"
      ]_vars

C9_Witness ==
    /\ lastOp = "set_temperature"
    /\ cmdError = None
    /\ calls # <<>>
    /\ entity.target_temperature # calls[1].args

\* C10: whenever the update handler publishes the entity's state to the host,
\* every published attribute is the projection of the snapshot cached at that
\* moment.
C10_PublishedStateIsCurrent ==
    lastOp = "handle_update" =>
        /\ hostState # None
        /\ hostState[1].available <=> (device[1].tank # None)
        /\ TemperaturesMirror(hostState[1], device[1])
        /\ OperationStateMatches(hostState[1], device[1])

C10_Witness ==
    /\ lastOp = "handle_update"
    /\ fetchCalls = 2
    /\ TankPresent
    /\ hostState = Some(entity)
    /\ entity.target_temperature = <<device[1].tank[1].target_temperature>>
    /\ entity.state = STATE_HEAT_PUMP

=============================================================================
